---- MODULE Spec2Model ----
(***************************************************************************)
(* Aqua Risk Intelligence System (src/app.py) and the loan-model training  *)
(* script (src/ml_models/train_failure_model.py).                          *)
(*                                                                         *)
(* The Streamlit script is executed top to bottom on every interaction.    *)
(* One script run is modelled as the sequence of its statements, with pc   *)
(* naming the statement about to run:                                      *)
(*   "idle"    no script run in progress                                   *)
(*   "load"    line 73   farmer_df, water_df = load_simulated_data()       *)
(*   "train"   line 88   loan_model, farm_model = train_models(...)        *)
(*   "gate"    lines 133-177  create_user_table + authentication gate      *)
(*   "submit"  lines 182-239  form, predict_proba, save_result             *)
(*   "history" lines 245-248  load_history                                 *)
(*   "dbinit"  lines 251-252  if not os.path.exists(DB_PATH): init_db()    *)
(* Runs do not interleave (single user, synchronous execution).            *)
(*                                                                         *)
(* What lives outside the repository is modelled by its documented         *)
(* behaviour: SQLite (tables, PRIMARY KEY, ORDER BY without tie-break),    *)
(* pandas to_sql (creates the table when missing, insert in a transaction),*)
(* numpy's global generator (np.random.seed), scikit-learn's               *)
(* RandomForestClassifier (random_state=None draws from numpy's global     *)
(* generator; a single-class fit succeeds; an empty fit raises) and        *)
(* Streamlit (caches and session_state live in process memory; an uncaught *)
(* exception ends the script run and is shown on the page).                *)
(***************************************************************************)
EXTENDS Integers, Sequences, FiniteSets, TLC

\* ------------------------------------------------------------------ bounds
\* wall-clock ticks the model lets pass
MaxClock == 2
\* clock ticks per second: result_time has second resolution
TicksPerSecond == 2
\* rows the ledger may hold
MaxLedger == 2
\* process restarts
MaxRestarts == 1
\* size of the state space of the abstract random generator
RngMod == 4
\* rows of data/sample_loan_data.csv tried by the training script
MaxCsvRows == 4
\* rows of a training frame handed to train_models on its own
MaxRows == 2

\* ------------------------------------------------------- program constants
\* np.random.seed(42)
Seed42 == 42
\* n = 500
n == 500
\* trees of RandomForestClassifier: the probability is a share of their votes
NTrees == 100
\* random_state=42 of the training script
ScriptRandomState == 42
\* number_input("Annual Income (INR)", 10000, 1000000, 250000)
IncomeMin == 10000
IncomeDefault == 250000

Usernames == {"asha", "ravi"}
Passwords == {"a", "b"}
Names == {"Asha"}
Incomes == {IncomeMin, IncomeDefault}
\* df['risk'] = [0, 1, 0]
risk == <<0, 1, 0>>

VARIABLES
    \* aqua_risk.db
    db_file,            \* os.path.exists(DB_PATH)
    users_table,        \* table users exists
    users,              \* rows of users: <<username, password digest>>
    outputs_table,      \* table model_outputs exists
    model_outputs,      \* rows of model_outputs, in insertion (rowid) order
    \* process memory
    rng,                \* state of numpy's global generator
    data_cache,         \* st.cache_data entry of load_simulated_data
    resource_cache,     \* st.cache_resource entry of train_models
    proc,               \* number of the process incarnation
    \* session memory
    has_auth,           \* "authenticated" in st.session_state
    authenticated,      \* st.session_state.authenticated
    \* environment
    clock,              \* wall clock, in ticks
    \* script run
    pc,
    run,                \* locals and outputs of the current (or last) run
    \* history of the execution
    appended,           \* the records of the successful save_result calls
    save_failed         \* some save_result call has raised

dbVars == <<db_file, users_table, users, outputs_table, model_outputs>>
procVars == <<rng, data_cache, resource_cache, proc>>
sessionVars == <<has_auth, authenticated>>
histVars == <<appended, save_failed>>
vars == <<db_file, users_table, users, outputs_table, model_outputs, rng,
          data_cache, resource_cache, proc, has_auth, authenticated, clock,
          pc, run, appended, save_failed>>

\* ------------------------------------------------------------ value shapes
NoDf == [gen |-> 0, rows |-> 0, classes |-> {}]
NoModel == [fitted |-> FALSE, gen |-> 0, seed |-> 0, classes |-> {}]
NoRow == [name |-> "", income |-> 0, financial_risk |-> 0,
          technical_risk |-> 0, result_time |-> <<>>]
EmptyDataCache == [hit |-> FALSE, farmer_df |-> NoDf, water_df |-> NoDf]
EmptyResourceCache == [hit |-> FALSE, key |-> <<NoDf, NoDf>>,
                       loan_model |-> NoModel, farm_model |-> NoModel]
FreshRun == [farmer_df |-> NoDf, water_df |-> NoDf,
             loan_model |-> NoModel, farm_model |-> NoModel,
             auth_option |-> "", user |-> "", pwd |-> "",
             submit |-> FALSE, predicted |-> FALSE, result |-> NoRow,
             saved |-> 0, listed |-> "no", history |-> <<>>,
             fault |-> FALSE, message |-> ""]

\* --------------------------------------------------- authentication functions
\* hashlib.sha256(password.encode()).hexdigest(), by the first digits of the
\* digest of each password of the model
Sha256(password) ==
    CASE password = "a" -> "ca978112"
      [] password = "b" -> "3e23e816"
      [] OTHER -> "e3b0c442"

\* INSERT OR REPLACE instead of INSERT
add_user_replace(tbl, username, password) ==
    [ok |-> TRUE,
     users |-> {r \in tbl : r[1] # username} \cup {<<username, Sha256(password)>>}]

\* INSERT INTO users: username is the PRIMARY KEY, a second row for it raises
add_user(tbl, username, password) ==
    IF \E r \in tbl : r[1] = username
    THEN [ok |-> FALSE, users |-> tbl]
    ELSE [ok |-> TRUE, users |-> tbl \cup {<<username, Sha256(password)>>}]

\* the WHERE clause without the password
login_user_any_password(tbl, username, password) ==
    \E r \in tbl : r[1] = username

\* SELECT * FROM users WHERE username = ? AND password = ?; fetchone()
login_user(tbl, username, password) ==
    <<username, Sha256(password)>> \in tbl

\* ------------------------------------------------------------ simulated data
\* np.random.seed(s) on the abstract generator
seed(s) == s % RngMod

\* one array drawn from the generator
Draw(r) == (5 * r + 3) % RngMod

RECURSIVE Draws(_, _)
Draws(r, k) == IF k = 0 THEN r ELSE Draws(Draw(r), k - 1)

\* the body without np.random.seed(42)
load_simulated_data_unseeded(r) ==
    [farmer_df |-> [gen |-> r, rows |-> n, classes |-> {0, 1}],
     water_df |-> [gen |-> Draws(r, 5), rows |-> n, classes |-> {0, 1}],
     rng |-> Draws(r, 10)]

\* the body of load_simulated_data: seeds the global generator, then draws the
\* five columns of farmer_df and the five of water_df.  A frame is identified
\* by the generator state its draws started from (gen); both frames hold both
\* label classes.
load_simulated_data(r) ==
    [farmer_df |-> [gen |-> seed(Seed42), rows |-> n, classes |-> {0, 1}],
     water_df |-> [gen |-> Draws(seed(Seed42), 5), rows |-> n, classes |-> {0, 1}],
     rng |-> Draws(seed(Seed42), 10)]

\* ------------------------------------------------------------------ models
\* RandomForestClassifier().fit(X, y) with random_state=None: the seeds of the
\* trees are drawn from numpy's global generator, in state r.  An empty frame
\* raises; a frame with one label class is fitted like any other.
Fit(df, r) ==
    [ok |-> df.rows > 0,
     model |-> IF df.rows > 0
               THEN [fitted |-> TRUE, gen |-> df.gen, seed |-> r,
                     classes |-> df.classes]
               ELSE NoModel,
     rng |-> IF df.rows > 0 THEN Draw(r) ELSE r]

\* the body of train_models: model1 is fitted first, then model2
train_models(farmer_df, water_df, r) ==
    LET f1 == Fit(farmer_df, r)
        f2 == Fit(water_df, f1.rng)
    IN  IF ~f1.ok
        THEN [ok |-> FALSE, loan_model |-> NoModel, farm_model |-> NoModel,
              rng |-> f1.rng]
        ELSE IF ~f2.ok
        THEN [ok |-> FALSE, loan_model |-> NoModel, farm_model |-> NoModel,
              rng |-> f2.rng]
        ELSE [ok |-> TRUE, loan_model |-> f1.model, farm_model |-> f2.model,
              rng |-> f2.rng]

\* predict_proba(x)[0][1] exists only when the model saw both classes
HasClass1Column(model) == Cardinality(model.classes) = 2

\* predict_proba(x)[0][1]: the share of the trees voting for class 1, a
\* function of the training frame, the seeds of the trees and the record
predict_proba(model, x) ==
    (model.gen * 7 + model.seed * 13 + (x \div IncomeMin) * 3) % (NTrees + 1)

\* round(p, 4) of p = votes / NTrees, in ten-thousandths
round4(votes) == (votes * 10000) \div NTrees

\* ------------------------------------------------------------------ ledger
\* datetime.now().strftime("%Y-%m-%d %H:%M:%S"): the seconds of the clock as
\* two zero-padded digits
strftime(t) == <<((t \div TicksPerSecond) \div 10) % 10, (t \div TicksPerSecond) % 10>>

\* string comparison of two timestamps: a >= b
TimeGeq(a, b) ==
    \/ a[1] > b[1]
    \/ a[1] = b[1] /\ a[2] >= b[2]

\* to_sql(..., if_exists="replace")
save_result_replace(rows, data) == <<data>>

\* to_sql("model_outputs", conn, if_exists="append", index=False)
save_result(rows, data) == Append(rows, data)

\* a row written although the insert raised
failed_insert_partial(rows, data) == Append(rows, data)

\* the insert of to_sql raises: its transaction is rolled back
failed_insert(rows, data) == rows

\* SELECT * FROM model_outputs ORDER BY result_time DESC: every order of the
\* rows with result_time descending; rows with equal result_time come in any
\* order (SQL leaves it open)
load_history(rows) ==
    {[i \in 1..Len(rows) |-> rows[p[i]]] :
        p \in {q \in Permutations(1..Len(rows)) :
                 \A i, j \in 1..Len(rows) :
                    i < j => TimeGeq(rows[q[i]].result_time, rows[q[j]].result_time)}}

\* --------------------------------------------------------------- lifecycle
\* what a new process holds of the caches when the fitted models are kept in
\* a file and loaded when present
process_caches_persisted(dc, rc) == [data |-> EmptyDataCache, resource |-> rc]

\* st.cache_data and st.cache_resource keep their entries in process memory:
\* a new process starts with both empty
process_caches(dc, rc) == [data |-> EmptyDataCache, resource |-> EmptyResourceCache]

\* the state of the Sample Store and Risk Model pair
Lifecycle ==
    IF ~data_cache.hit /\ ~resource_cache.hit THEN "UNINITIALIZED"
    ELSE IF data_cache.hit /\ ~resource_cache.hit THEN "LOADED"
    ELSE IF /\ data_cache.hit
            /\ resource_cache.key = <<data_cache.farmer_df, data_cache.water_df>>
            /\ resource_cache.loan_model.fitted
            /\ resource_cache.farm_model.fitted
         THEN "FITTED"
    ELSE "INVALID"

\* -------------------------------------------------------------------- Init
Init ==
    /\ db_file = FALSE
    /\ users_table = FALSE
    /\ users = {}
    /\ outputs_table = FALSE
    /\ model_outputs = <<>>
    /\ rng \in 0..(RngMod - 1)
    /\ data_cache = EmptyDataCache
    /\ resource_cache = EmptyResourceCache
    /\ proc = 0
    /\ has_auth = FALSE
    /\ authenticated = FALSE
    /\ clock = 0
    /\ pc = "idle"
    /\ run = FreshRun
    /\ appended = <<>>
    /\ save_failed = FALSE

\* ------------------------------------------------------------- script run
\* an interaction starts a script run
StartRun ==
    /\ pc = "idle"
    /\ pc' = "load"
    /\ run' = FreshRun
    /\ UNCHANGED <<dbVars, procVars, sessionVars, clock, histVars>>

\* line 73: farmer_df, water_df = load_simulated_data(), under @st.cache_data
LoadData ==
    /\ pc = "load"
    /\ IF data_cache.hit
       THEN /\ run' = [run EXCEPT !.farmer_df = data_cache.farmer_df,
                                  !.water_df = data_cache.water_df]
            /\ UNCHANGED <<rng, data_cache>>
       ELSE LET g == load_simulated_data(rng)
            IN  /\ rng' = g.rng
                /\ data_cache' = [hit |-> TRUE, farmer_df |-> g.farmer_df,
                                  water_df |-> g.water_df]
                /\ run' = [run EXCEPT !.farmer_df = g.farmer_df,
                                      !.water_df = g.water_df]
    /\ pc' = "train"
    /\ UNCHANGED <<dbVars, resource_cache, proc, sessionVars, clock, histVars>>

\* line 88: loan_model, farm_model = train_models(farmer_df, water_df), under
\* @st.cache_resource, whose key is the pair of arguments
TrainModels ==
    /\ pc = "train"
    /\ IF resource_cache.hit /\ resource_cache.key = <<run.farmer_df, run.water_df>>
       THEN /\ run' = [run EXCEPT !.loan_model = resource_cache.loan_model,
                                  !.farm_model = resource_cache.farm_model]
            /\ pc' = "gate"
            /\ UNCHANGED <<rng, resource_cache>>
       ELSE LET t == train_models(run.farmer_df, run.water_df, rng)
            IN  /\ rng' = t.rng
                /\ IF t.ok
                   THEN /\ resource_cache' =
                              [hit |-> TRUE, key |-> <<run.farmer_df, run.water_df>>,
                               loan_model |-> t.loan_model,
                               farm_model |-> t.farm_model]
                        /\ run' = [run EXCEPT !.loan_model = t.loan_model,
                                              !.farm_model = t.farm_model]
                        /\ pc' = "gate"
                   ELSE /\ run' = [run EXCEPT !.message = "exception: train_models"]
                        /\ pc' = "idle"
                        /\ UNCHANGED resource_cache
    /\ UNCHANGED <<dbVars, data_cache, proc, sessionVars, clock, histVars>>

\* line 133: create_user_table() raises, the store being unavailable
GateStoreError ==
    /\ pc = "gate"
    /\ run' = [run EXCEPT !.fault = TRUE,
                          !.message = "exception: create_user_table"]
    /\ pc' = "idle"
    /\ UNCHANGED <<dbVars, procVars, sessionVars, clock, histVars>>

\* lines 133-135: create_user_table(), which creates the file and the users
\* table, and the default of session_state.authenticated
GateEntry ==
    /\ pc = "gate"
    /\ db_file' = TRUE
    /\ users_table' = TRUE
    /\ has_auth' = TRUE

\* session_state.authenticated after line 135
AuthAtGate == IF has_auth THEN authenticated ELSE FALSE

\* line 137: authenticated, the gate is passed
GatePass ==
    /\ GateEntry
    /\ AuthAtGate
    /\ authenticated' = TRUE
    /\ pc' = "submit"
    /\ UNCHANGED <<users, outputs_table, model_outputs, procVars, clock, run,
                   histVars>>

\* lines 137-177: the login box is shown, no button is pressed, st.stop()
GateStop ==
    /\ GateEntry
    /\ ~AuthAtGate
    /\ authenticated' = FALSE
    /\ pc' = "idle"
    /\ UNCHANGED <<users, outputs_table, model_outputs, procVars, clock, run,
                   histVars>>

\* lines 161-168: the Login button.  On success st.experimental_rerun() starts
\* the script again, with no button pressed; the run it starts remembers the
\* login that caused it.
GateLogin ==
    /\ GateEntry
    /\ ~AuthAtGate
    /\ \E user \in Usernames, pwd \in Passwords, fault \in BOOLEAN :
          IF fault
          THEN /\ authenticated' = FALSE
               /\ run' = [run EXCEPT !.auth_option = "Login", !.user = user,
                                     !.pwd = pwd, !.fault = TRUE,
                                     !.message = "exception: login_user"]
               /\ pc' = "idle"
          ELSE IF login_user(users, user, pwd)
          THEN /\ authenticated' = TRUE
               /\ run' = [FreshRun EXCEPT !.auth_option = "Login", !.user = user,
                                          !.pwd = pwd,
                                          !.message = "Login successful"]
               /\ pc' = "load"
          ELSE /\ authenticated' = FALSE
               /\ run' = [run EXCEPT !.auth_option = "Login", !.user = user,
                                     !.pwd = pwd,
                                     !.message = "Invalid username or password"]
               /\ pc' = "idle"
    /\ UNCHANGED <<users, outputs_table, model_outputs, procVars, clock, histVars>>

\* lines 169-175: the Register button; whatever add_user raises is caught
GateRegister ==
    /\ GateEntry
    /\ ~AuthAtGate
    /\ authenticated' = FALSE
    /\ \E user \in Usernames, pwd \in Passwords, fault \in BOOLEAN :
          LET a == add_user(users, user, pwd)
          IN  IF fault
              THEN /\ users' = users
                   /\ run' = [run EXCEPT
                                 !.auth_option = "Register", !.user = user,
                                 !.pwd = pwd, !.fault = TRUE,
                                 !.message = "User already exists or error occurred."]
              ELSE /\ users' = a.users
                   /\ run' = [run EXCEPT
                                 !.auth_option = "Register", !.user = user,
                                 !.pwd = pwd,
                                 !.message =
                                     IF a.ok
                                     THEN "User registered. Please log in."
                                     ELSE "User already exists or error occurred."]
    /\ pc' = "idle"
    /\ UNCHANGED <<outputs_table, model_outputs, procVars, clock, histVars>>

\* line 208: the form was not submitted
SkipSubmit ==
    /\ pc = "submit"
    /\ pc' = "history"
    /\ UNCHANGED <<dbVars, procVars, sessionVars, clock, run, histVars>>

\* the record of lines 221-237
Result(name, income, fin_risk, tech_risk) ==
    [name |-> name, income |-> income,
     financial_risk |-> round4(fin_risk), technical_risk |-> round4(tech_risk),
     result_time |-> strftime(clock)]

\* lines 208-239: the form was submitted: both scores, then save_result.
\* save_result raises either before it touched the store ("connect") or with
\* the table created and the insert failing ("insert").
SubmitForm ==
    /\ pc = "submit"
    /\ Len(model_outputs) < MaxLedger
    /\ \E name \in Names, income \in Incomes,
          fault \in {"none", "connect", "insert"} :
          IF ~(HasClass1Column(run.loan_model) /\ HasClass1Column(run.farm_model))
          THEN /\ run' = [run EXCEPT !.submit = TRUE,
                                     !.message = "exception: predict_proba"]
               /\ pc' = "idle"
               /\ UNCHANGED <<outputs_table, model_outputs, histVars>>
          ELSE LET result == Result(name, income,
                                    predict_proba(run.loan_model, income),
                                    predict_proba(run.farm_model, 0))
               IN  IF fault = "none"
                   THEN /\ outputs_table' = TRUE
                        /\ model_outputs' = save_result(model_outputs, result)
                        /\ appended' = Append(appended, [data |-> result, proc |-> proc])
                        /\ run' = [run EXCEPT !.submit = TRUE, !.predicted = TRUE,
                                              !.result = result, !.saved = 1]
                        /\ pc' = "history"
                        /\ UNCHANGED save_failed
                   ELSE /\ outputs_table' = (outputs_table \/ fault = "insert")
                        /\ model_outputs' = IF fault = "insert"
                                            THEN failed_insert(model_outputs, result)
                                            ELSE model_outputs
                        /\ save_failed' = TRUE
                        /\ run' = [run EXCEPT !.submit = TRUE, !.predicted = TRUE,
                                              !.result = result, !.fault = TRUE,
                                              !.message = "exception: save_result"]
                        /\ pc' = "idle"
                        /\ UNCHANGED appended
    /\ UNCHANGED <<db_file, users_table, users, procVars, sessionVars, clock>>

\* line 247: load_history() raises, the store being unavailable
HistoryStoreError ==
    /\ pc = "history"
    /\ run' = [run EXCEPT !.listed = "store_error", !.fault = TRUE,
                          !.message = "exception: load_history"]
    /\ pc' = "idle"
    /\ UNCHANGED <<dbVars, procVars, sessionVars, clock, histVars>>

\* line 247: load_history() on a database without the table model_outputs:
\* the SELECT raises
HistoryNoTable ==
    /\ pc = "history"
    /\ ~outputs_table
    /\ run' = [run EXCEPT !.listed = "no_such_table",
                          !.message = "exception: load_history"]
    /\ pc' = "idle"
    /\ UNCHANGED <<dbVars, procVars, sessionVars, clock, histVars>>

\* lines 245-248: load_history() and the table shown
HistoryList ==
    /\ pc = "history"
    /\ outputs_table
    /\ \E h \in load_history(model_outputs) :
          run' = [run EXCEPT !.listed = "ok", !.history = h]
    /\ pc' = "dbinit"
    /\ UNCHANGED <<dbVars, procVars, sessionVars, clock, histVars>>

\* lines 251-252: init_db() when the database file is absent
DbInit ==
    /\ pc = "dbinit"
    /\ IF ~db_file
       THEN db_file' = TRUE /\ outputs_table' = TRUE
       ELSE UNCHANGED <<db_file, outputs_table>>
    /\ pc' = "idle"
    /\ UNCHANGED <<users_table, users, model_outputs, procVars, sessionVars,
                   clock, run, histVars>>

\* ------------------------------------------------------------- environment
\* the wall clock advances between two script runs
Tick ==
    /\ pc = "idle"
    /\ clock < MaxClock
    /\ clock' = clock + 1
    /\ UNCHANGED <<dbVars, procVars, sessionVars, pc, run, histVars>>

\* the process is started again: its memory is new, the database file stays
Restart ==
    /\ pc = "idle"
    /\ proc < MaxRestarts
    /\ proc' = proc + 1
    /\ rng' \in 0..(RngMod - 1)
    /\ data_cache' = process_caches(data_cache, resource_cache).data
    /\ resource_cache' = process_caches(data_cache, resource_cache).resource
    /\ has_auth' = FALSE
    /\ authenticated' = FALSE
    /\ run' = FreshRun
    /\ UNCHANGED <<dbVars, clock, pc, histVars>>

\* the page is opened anew: a new session_state
NewSession ==
    /\ pc = "idle"
    /\ has_auth
    /\ has_auth' = FALSE
    /\ authenticated' = FALSE
    /\ run' = FreshRun
    /\ UNCHANGED <<dbVars, procVars, clock, pc, histVars>>

Next ==
    \/ StartRun
    \/ LoadData
    \/ TrainModels
    \/ GateStoreError
    \/ GatePass
    \/ GateStop
    \/ GateLogin
    \/ GateRegister
    \/ SkipSubmit
    \/ SubmitForm
    \/ HistoryStoreError
    \/ HistoryNoTable
    \/ HistoryList
    \/ DbInit
    \/ Tick
    \/ Restart
    \/ NewSession

Spec == Init /\ [][Next]_vars

\* ------------------------------------------- the fits, on frames of any kind
\* the training frames train_models may be handed: no row, or rows of one
\* label class, or rows of both
Frames ==
    {[gen |-> 0, rows |-> k, classes |-> c] :
        <<k, c>> \in {kc \in (0..MaxRows) \X SUBSET {0, 1} :
                        /\ (kc[1] = 0) <=> (kc[2] = {})
                        /\ Cardinality(kc[2]) <= kc[1]}}

InitFit ==
    /\ db_file = FALSE
    /\ users_table = FALSE
    /\ users = {}
    /\ outputs_table = FALSE
    /\ model_outputs = <<>>
    /\ rng \in 0..(RngMod - 1)
    /\ data_cache = EmptyDataCache
    /\ resource_cache = EmptyResourceCache
    /\ proc = 0
    /\ has_auth = FALSE
    /\ authenticated = FALSE
    /\ clock = 0
    /\ pc = "fit"
    /\ \E f \in Frames, w \in Frames :
          run = [FreshRun EXCEPT !.farmer_df = f, !.water_df = w]
    /\ appended = <<>>
    /\ save_failed = FALSE

\* train_models(farmer_df, water_df) called on the frames of the run
FitTrain ==
    /\ pc = "fit"
    /\ LET t == train_models(run.farmer_df, run.water_df, rng)
       IN  /\ rng' = t.rng
           /\ IF t.ok
              THEN /\ run' = [run EXCEPT !.loan_model = t.loan_model,
                                         !.farm_model = t.farm_model]
                   /\ pc' = "score"
              ELSE /\ run' = [run EXCEPT !.message = "exception: train_models"]
                   /\ pc' = "fit_done"
    /\ UNCHANGED <<dbVars, data_cache, resource_cache, proc, sessionVars, clock,
                   histVars>>

\* lines 214-215 on the models just fitted
FitScore ==
    /\ pc = "score"
    /\ \E income \in Incomes :
          IF HasClass1Column(run.loan_model) /\ HasClass1Column(run.farm_model)
          THEN run' = [run EXCEPT
                          !.predicted = TRUE,
                          !.result = Result("", income,
                                            predict_proba(run.loan_model, income),
                                            predict_proba(run.farm_model, 0))]
          ELSE run' = [run EXCEPT !.message = "exception: predict_proba"]
    /\ pc' = "fit_done"
    /\ UNCHANGED <<dbVars, procVars, sessionVars, clock, histVars>>

\* src/ml_models/train_failure_model.py, on a csv file of k rows: the labels
\* are the three of risk, whatever the file holds; the forest has its own
\* generator (random_state=42)
TrainScript ==
    /\ pc = "fit"
    /\ \E k \in 0..MaxCsvRows :
          IF k # Len(risk)
          THEN run' = [FreshRun EXCEPT !.message = "exception: length of values"]
          ELSE LET df == [gen |-> 0, rows |-> k,
                          classes |-> {risk[i] : i \in 1..Len(risk)}]
                   f == Fit(df, seed(ScriptRandomState))
               IN  run' = [FreshRun EXCEPT
                              !.farmer_df = df,
                              !.loan_model = f.model,
                              !.message = "Loan model trained and saved."]
    /\ pc' = "script_done"
    /\ UNCHANGED <<dbVars, procVars, sessionVars, clock, histVars>>

NextFit ==
    \/ FitTrain
    \/ FitScore
    \/ TrainScript

SpecFit == InitFit /\ [][NextFit]_vars

\* a training frame that is empty or holds one label class only
Degenerate(df) == Cardinality(df.classes) < 2

\* ------------------------------------------------------------------ claims
Count(seq, x) == Cardinality({i \in DOMAIN seq : seq[i] = x})

\* C1: whenever load_history is executed (the store being available) after N
\* successful save_result calls, it returns exactly N records, each with the
\* field values it was appended with.
C1_AppendOnlyLaw ==
    run.listed \in {"ok", "no_such_table"} =>
        /\ run.listed = "ok"
        /\ Len(run.history) = Len(appended)
        /\ \A i \in DOMAIN appended :
              Count(run.history, appended[i].data) =
                  Cardinality({j \in DOMAIN appended :
                                 appended[j].data = appended[i].data})

\* C2: load_history returns the records most-recent first: the record appended
\* later comes before the record appended earlier, also when their result_time
\* strings are equal.
C2_MostRecentFirst ==
    run.listed = "ok" =>
        \A i \in 1..Len(run.history) :
            run.history[i] = model_outputs[Len(model_outputs) + 1 - i]

LifecycleSteps ==
    {<<"UNINITIALIZED", "LOADED">>, <<"LOADED", "FITTED">>, <<"FITTED", "LOADED">>}

\* C3: within a process the Sample Store and Risk Model pair is always in one
\* of UNINITIALIZED, LOADED, FITTED; it moves only UNINITIALIZED->LOADED,
\* LOADED->FITTED and FITTED->LOADED (a new process starts a new pair); and
\* predict_proba is called only in FITTED, on the cached models, which were
\* fitted from the frames now loaded.
C3_Lifecycle ==
    /\ [](Lifecycle \in {"UNINITIALIZED", "LOADED", "FITTED"})
    /\ [][proc' = proc /\ Lifecycle' # Lifecycle =>
              <<Lifecycle, Lifecycle'>> \in LifecycleSteps]_vars
    /\ [][run'.predicted /\ ~run.predicted =>
              /\ Lifecycle = "FITTED"
              /\ run.loan_model = resource_cache.loan_model
              /\ run.farm_model = resource_cache.farm_model
              /\ run.loan_model.gen = data_cache.farmer_df.gen
              /\ run.farm_model.gen = data_cache.water_df.gen]_vars

C3_Witness ==
    /\ run.predicted
    /\ Lifecycle = "FITTED"
    /\ proc > 0

\* C4: scoring, appending and listing happen only in a run of an authenticated
\* session; authenticated becomes true only at the Login button, with a
\* (username, sha256(password)) pair that is a row of users; rows of users come
\* from add_user only; a registration never sets authenticated.
C4_SessionGate ==
    /\ [](pc \in {"submit", "history", "dbinit"} => authenticated)
    /\ [](run.predicted \/ run.saved = 1 \/ run.listed # "no" => authenticated)
    /\ [][authenticated' /\ ~authenticated =>
              /\ pc = "gate"
              /\ run'.auth_option = "Login"
              /\ <<run'.user, Sha256(run'.pwd)>> \in users]_vars
    /\ [][users' # users =>
              /\ pc = "gate"
              /\ run'.auth_option = "Register"
              /\ users' = users \cup {<<run'.user, Sha256(run'.pwd)>>}]_vars
    /\ [][pc = "gate" /\ run'.auth_option = "Register" => ~authenticated']_vars

C4_Witness ==
    /\ authenticated
    /\ run.predicted
    /\ run.saved = 1
    /\ run.listed = "ok"

\* C5: the Register button, the store being available: for a username not in
\* users exactly one row is added, for it, and success is reported; for a
\* username in users the failure is reported and users is unchanged: the
\* original password still logs in and a different new password does not.
\* With the store unavailable the failure is reported and users is unchanged.
C5_Register ==
    [][pc = "gate" /\ run'.auth_option = "Register" =>
          IF run'.fault
          THEN /\ users' = users
               /\ run'.message = "User already exists or error occurred."
          ELSE IF \E r \in users : r[1] = run'.user
          THEN /\ users' = users
               /\ run'.message = "User already exists or error occurred."
               /\ \A p \in Passwords :
                     login_user(users', run'.user, p) <=>
                         <<run'.user, Sha256(p)>> \in users
          ELSE /\ users' = users \cup {<<run'.user, Sha256(run'.pwd)>>}
               /\ Cardinality(users') = Cardinality(users) + 1
               /\ login_user(users', run'.user, run'.pwd)
               /\ run'.message = "User registered. Please log in."]_vars

C5_Witness ==
    /\ pc = "idle"
    /\ run.auth_option = "Register"
    /\ ~run.fault
    /\ run.message = "User already exists or error occurred."
    /\ \E r \in users : r[1] = run.user /\ r[2] # Sha256(run.pwd)
    /\ Cardinality(users) = 2

\* C6: two executions of generate + fit + score on the same record store the
\* same financial_risk, also when they ran in two processes.
C6_Reproducible ==
    \A i, j \in DOMAIN appended :
        appended[i].data.income = appended[j].data.income =>
            appended[i].data.financial_risk = appended[j].data.financial_risk

C6_Witness ==
    \E i, j \in DOMAIN appended :
        /\ appended[i].proc # appended[j].proc
        /\ appended[i].data.income = appended[j].data.income

C8_SaveFailure ==
    /\ [][pc = "submit" /\ run'.message = "exception: save_result" =>
              /\ run'.fault
              /\ model_outputs' = model_outputs
              /\ appended' = appended
              /\ run'.saved = 0
              /\ pc' = "idle"
              /\ authenticated /\ authenticated']_vars
    /\ [][model_outputs' # model_outputs =>
              pc = "submit" /\ run'.submit /\ run'.saved = 1]_vars

C8_Witness ==
    /\ save_failed
    /\ authenticated
    /\ run.saved = 1
    /\ run.listed = "ok"

\* C9: in every authenticated script run the table model_outputs exists when
\* load_history is executed, so that load_history does not fail on a ledger
\* without appends.
C9_TableExistsAtHistory ==
    /\ pc = "history" => outputs_table
    /\ run.listed # "no_such_table"

\* C10: a run with the form submitted whose save_result does not raise appends
\* exactly one record; no other step of any run changes the ledger, so a run
\* without submission appends none; and the history listed in the run of a
\* submission holds the record just appended.
C10_OneSubmissionOneRecord ==
    /\ [][pc = "submit" /\ pc' = "history" =>
              IF run'.submit
              THEN /\ model_outputs' = Append(model_outputs, run'.result)
                   /\ appended' = Append(appended, [data |-> run'.result, proc |-> proc])
              ELSE model_outputs' = model_outputs /\ appended' = appended]_vars
    /\ [][pc # "submit" \/ ~run'.submit =>
              model_outputs' = model_outputs /\ appended' = appended]_vars
    /\ [](pc = "history" /\ run.submit => outputs_table /\ run.saved = 1)
    /\ [](run.listed = "ok" /\ run.submit =>
              /\ Len(run.history) = Len(model_outputs)
              /\ \E i \in DOMAIN run.history : run.history[i] = run.result
              /\ model_outputs[Len(model_outputs)] = run.result)

C10_Witness ==
    /\ run.listed = "ok"
    /\ run.submit
    /\ Len(model_outputs) = MaxLedger

====
